---- MODULE Spec2Model ----
(***************************************************************************)
(* Model of the caido-notify backend (packages/backend/src/index.ts):      *)
(* the findings pipeline checkAndSendFindings (read exclusions, read and   *)
(* prune the sent-log, fetch, filter, record, resolve destinations and     *)
(* fan out to the external notifier), run by scheduler ticks and by        *)
(* manualCheckFindings; sendNotification; and the scheduler                *)
(* (saveCheckDelay and startCheckingFindings).                             *)
(*                                                                         *)
(* A pipeline run is a sequence of atomic steps, one per stretch of code   *)
(* between two awaits that yield to the event loop (storage reads, the     *)
(* GraphQL query, process events).  Within a run the awaits on the         *)
(* in-memory caches (getSentFindings, saveSentFindings,                    *)
(* getUseCustomProviderConfig) resolve without I/O and are not taken as    *)
(* interleaving points.                                                    *)
(*                                                                         *)
(* Strings that the code compares with toLowerCase are sequences of        *)
(* one-character strings, so that case folding is computed.                *)
(***************************************************************************)
EXTENDS Integers, Sequences, FiniteSets, TLC

(***************************************************************************)
(* Bounds of the model.                                                    *)
(***************************************************************************)
MaxClock == 3      \* the clock takes the values ClockAt(0) .. ClockAt(MaxClock)
MaxFetch == 2      \* the finding source returns at most MaxFetch nodes
MaxFetchOverlap == 1   \* the same, in the specification with overlapping runs
MaxRuns == 2       \* runs started in the specifications with overlapping runs
MaxSaves == 2      \* saveCheckDelay requests made
MaxRestarts == 3   \* runs started in the specification that records pruned entries

(***************************************************************************)
(* Time.                                                                   *)
(***************************************************************************)
OneHour == 60 * 60 * 1000
TenMinutes == 10 * 60 * 1000
StartTime == 2 * OneHour

\* The instants at which Date.now() is observed: 2h, 2h10, 3h, 3h10, 4h, ...
ClockAt(i) == StartTime + (i \div 2) * OneHour + (i % 2) * TenMinutes

ClockValues == { ClockAt(i) : i \in 0..MaxClock }

(***************************************************************************)
(* Strings and String.prototype.toLowerCase.                               *)
(***************************************************************************)
LowerChar(c) ==
    CASE c = "S" -> "s"
      [] c = "Q" -> "q"
      [] c = "F" -> "f"
      [] c = "Z" -> "z"
      [] OTHER -> c

toLowerCase(s) == [i \in DOMAIN s |-> LowerChar(s[i])]

Range(s) == { s[i] : i \in DOMAIN s }

(***************************************************************************)
(* Findings returned by the finding source.                                *)
(***************************************************************************)
NaN == -1

Iso(t) == [kind |-> "iso", t |-> t]
Missing == [kind |-> "missing", t |-> 0]
Garbage == [kind |-> "garbage", t |-> 0]

\* new Date(createdAt).getTime()
DateParse(createdAt) == IF createdAt.kind = "iso" THEN createdAt.t ELSE NaN

isNaN(x) == x = NaN

\* the findings of the project, in the order the source returns them
SourceFindings ==
    << [id |-> <<"f", "1">>, reporter |-> <<"S", "q">>, createdAt |-> Iso(StartTime)],
       [id |-> <<"f", "2">>, reporter |-> <<"s", "q">>, createdAt |-> Missing],
       [id |-> <<"f", "3">>, reporter |-> <<"Z">>, createdAt |-> Garbage] >>

\* the subsequence of s at the positions in idx
RECURSIVE SubSeqAt(_, _)
SubSeqAt(s, idx) ==
    IF idx = { } THEN << >>
    ELSE LET i == CHOOSE k \in idx : \A j \in idx : k <= j
         IN <<s[i]>> \o SubSeqAt(s, idx \ { i })

\* responses of the source: at most n of the findings, in source order
Responses(n) ==
    { SubSeqAt(SourceFindings, idx) :
        idx \in { x \in SUBSET DOMAIN SourceFindings : Cardinality(x) <= n } }

\* lines 555-561: the timestamp derived from createdAt, defaulting to now
findingTimestamp(f, now) ==
    IF f.createdAt.kind # "missing"
    THEN LET parsed == DateParse(f.createdAt)
         IN IF ~isNaN(parsed) THEN parsed ELSE now
    ELSE now

(***************************************************************************)
(* Stored configuration (NotifyConfig, lines 15-22).  customFindingIds is  *)
(* the list of the object's entries in Object.keys order.                  *)
(***************************************************************************)
Undefined == "undefined"

ConfigUniverse ==
    { [defaultIds |-> "default-chan", defaultIdsType |-> "id",
       customFindingIds |-> << [key |-> <<"s", "q">>, id |-> "sq-chan"] >>,
       customFindingIdsType |-> { [key |-> <<"s", "q">>, type |-> "provider"] }],
      [defaultIds |-> "", defaultIdsType |-> Undefined,
       customFindingIds |-> << [key |-> <<"s", "q">>, id |-> "sq-chan"] >>,
       customFindingIdsType |-> { }],
      [defaultIds |-> "default-chan", defaultIdsType |-> "provider",
       customFindingIds |-> << [key |-> <<"S", "Q">>, id |-> ""],
                               [key |-> <<"s", "q">>, id |-> "sq-chan"] >>,
       customFindingIdsType |-> { }] }

\* exclusion lists the user can have stored (ids and reporter names)
ExcludedUniverse ==
    { << >>,
      << <<"S", "q">> >>,
      << <<"f", "1">> >>,
      << <<"F", "1">>, <<"z">> >> }

(***************************************************************************)
(* The filter step of checkAndSendFindings (lines 475-501 and 546-606).    *)
(***************************************************************************)
oneHourAgo(now) == now - OneHour

\* variant: an entry exactly one hour old is kept
cleanedSentFindingsInclusive(sentFindings, now) ==
    SelectSeq(sentFindings, LAMBDA f : f.timestamp >= oneHourAgo(now))

\* line 495
cleanedSentFindings(sentFindings, now) ==
    SelectSeq(sentFindings, LAMBDA f : f.timestamp > oneHourAgo(now))

\* variant: the ids of the sent-log as read (sentIds, lines 486-493)
finalSentIdsUnpruned(sentFindings, now) ==
    { sentFindings[i].findingId : i \in DOMAIN sentFindings }

\* line 501: the ids the filter compares against
finalSentIds(sentFindings, now) ==
    LET cleaned == cleanedSentFindings(sentFindings, now)
    IN { cleaned[i].findingId : i \in DOMAIN cleaned }

\* lines 546-569
allFindings(nodes, now) ==
    [i \in DOMAIN nodes |->
        [id |-> nodes[i].id, reporter |-> nodes[i].reporter,
         timestamp |-> findingTimestamp(nodes[i], now)]]

\* variant: a finding exactly one hour old counts as recent
isRecentInclusive(finding, now) == finding.timestamp >= oneHourAgo(now)

\* lines 579-581
isRecent(finding, now) == finding.timestamp > oneHourAgo(now)

recentFindings(all, now) == SelectSeq(all, LAMBDA f : isRecent(f, now))

\* variant: ids compared ignoring case
isExcludedByIdAnyCase(excluded, findingId) ==
    \E e \in excluded : toLowerCase(e) = toLowerCase(findingId)

\* lines 587-588, excluded is new Set(excludedResult.value)
isExcludedById(excluded, findingId) == findingId \in excluded

isExcludedByReporter(excluded, reporter) == reporter \in excluded

\* lines 583-590
NewFindings(nodes, excluded, sentFindings, now) ==
    SelectSeq(recentFindings(allFindings(nodes, now), now),
              LAMBDA f : /\ ~isExcludedById(excluded, f.id)
                         /\ ~isExcludedByReporter(excluded, f.reporter)
                         /\ f.id \notin finalSentIds(sentFindings, now))

\* lines 596-602
newSentFindings(new) ==
    [i \in DOMAIN new |-> [findingId |-> new[i].id, timestamp |-> new[i].timestamp]]

\* line 605
updatedSent(sentFindings, new, now) ==
    cleanedSentFindings(sentFindings, now) \o newSentFindings(new)

(***************************************************************************)
(* Destination resolution and grouping (lines 613-670).                    *)
(***************************************************************************)
defaultNotifyIds(config) ==
    IF config.defaultIds = Undefined THEN "" ELSE config.defaultIds

defaultIdsType(config) ==
    IF config.defaultIdsType = Undefined THEN "id" ELSE config.defaultIdsType

\* variant: only a missing default destination is refused
noDefaultNotifyIdsWhenUndefined(config) == config.defaultIds = Undefined

\* line 617: !defaultNotifyIds
noDefaultNotifyIds(config) == defaultNotifyIds(config) = ""

\* variant: keys compared exactly
reporterKeyExact(config, reporter) ==
    LET hits == { i \in DOMAIN config.customFindingIds :
                    config.customFindingIds[i].key = reporter }
    IN IF hits = { } THEN 0
       ELSE CHOOSE i \in hits : \A j \in hits : i <= j

\* lines 647-649: index of the first key matching the reporter, 0 if none
reporterKey(config, reporter) ==
    LET hits == { i \in DOMAIN config.customFindingIds :
                    toLowerCase(config.customFindingIds[i].key) = toLowerCase(reporter) }
    IN IF hits = { } THEN 0
       ELSE CHOOSE i \in hits : \A j \in hits : i <= j

\* variant: the kind recorded for an override is not looked up
customTypeIgnored(config, key) == Undefined

\* config.customFindingIdsType?.[key]
customType(config, key) ==
    LET hits == { e \in config.customFindingIdsType : e.key = key }
    IN IF hits = { } THEN Undefined ELSE (CHOOSE e \in hits : TRUE).type

\* lines 642-657
resolveDestination(config, reporter) ==
    LET k == reporterKey(config, reporter)
    IN IF k = 0
       THEN [notifyIds |-> defaultNotifyIds(config), idsType |-> defaultIdsType(config)]
       ELSE LET key == config.customFindingIds[k].key
                t == customType(config, key)
            IN [notifyIds |-> config.customFindingIds[k].id,
                idsType |-> IF t = Undefined THEN defaultIdsType(config) ELSE t]

\* variant: reporters that differ by case share a group
sameGroupAnyCase(a, b) == toLowerCase(a) = toLowerCase(b)

\* lines 631-633: two reporters are the same key of the Map
sameGroup(a, b) == a = b

\* lines 628-634: the keys of the Map, in insertion order
RECURSIVE reporterOrder(_)
reporterOrder(new) ==
    IF new = << >> THEN << >>
    ELSE LET rest == reporterOrder(SelectSeq(Tail(new),
                                   LAMBDA f : ~sameGroup(f.reporter, Head(new).reporter)))
         IN <<Head(new).reporter>> \o rest

\* lines 640-713: one notifier invocation per group; bulkMessage is the list
\* of the finding ids whose formatted texts are joined into the message
invocations(config, new) ==
    LET order == reporterOrder(new)
    IN [g \in DOMAIN order |->
          LET dest == resolveDestination(config, order[g])
              group == SelectSeq(new, LAMBDA f : sameGroup(f.reporter, order[g]))
          IN [reporter |-> order[g],
              flag |-> IF dest.idsType = "provider" THEN "-provider" ELSE "-id",
              notifyIds |-> dest.notifyIds,
              bulkMessage |-> [i \in DOMAIN group |-> group[i].id],
              status |-> "running"]]

\* lines 686, 695 and 700-703: the value a notifier promise resolves with
resolved(status) == IF status = "error" THEN "Error: Failed to execute notify" ELSE "Ok"

\* variant: Promise.race, the first settled promise ends the wait
anySettled(ps) == \E g \in DOMAIN ps : ps[g].status # "running"

\* line 716: Promise.all, every promise has resolved
allSettled(ps) == \A g \in DOMAIN ps : ps[g].status # "running"

\* variant: the event carries the size of the log as its count
findingsSentTotals(new, updated) == [count |-> Len(updated), totalCount |-> Len(updated)]

\* lines 719-722: the payload of the "findings-sent" event, from
\* newSentFindings and updatedSent
findingsSent(new, updated) == [count |-> Len(new), totalCount |-> Len(updated)]

\* variant: a process that exits with a non-zero code or is timed out fails
\* the run
runResultOfExits(ps) ==
    IF \E g \in DOMAIN ps : ps[g].status \in { "closedNonZero", "timeout" }
    THEN "Error: Notify command failed" ELSE "Ok"

\* lines 716-724: the resolved values are dropped and the run returns Ok
runResult(ps) == "Ok"

(***************************************************************************)
(* State.                                                                  *)
(***************************************************************************)
\* the two pipeline runs that can be in progress: one started by the
\* setInterval callback, one by manualCheckFindings
Runs == { "tick", "manual" }

\* the runs of two callbacks of the timer: setInterval invokes the callback
\* at every period, whatever became of the promise the last call returned
TickRuns == { "tick", "tick2" }

AllRuns == Runs \cup TickRuns

VARIABLES
    clock,               \* Date.now()
    sentFindingsCache,   \* line 262: the sent-log
    excludedFindings,    \* stored exclusion list ("excluded-findings")
    notifyConfig,        \* stored NotifyConfig ("notify-ids")
    pc,                  \* per run: the await it is suspended at
    excluded,            \* per run: line 475
    now,                 \* per run: line 477
    sentFindings,        \* per run: line 480, the sent-log as read
    nodes,               \* per run: response.data.findings.nodes
    newFindings,         \* per run: line 583
    config,              \* per run: line 613
    procs,               \* per run: the notifier processes and their promises
    saveError,           \* per run: a saveSentFindings call returned an Error
    result,              \* per run: the Result returned
    emitted,             \* per run: the "findings-sent" events it emitted
    notified,            \* history: finding ids passed to the notifier since the
                         \* sent-log was last cleared
    lastRun,             \* history: summary of the last run that returned
    prunedEntries,       \* history: the sent-log entries that runs have pruned,
                         \* where they are recorded
    started,             \* history: number of runs started, where it is bounded
    send,                \* the sendNotification call in progress, if any
    checkDelayCache,     \* line 307
    checkInterval,       \* line 760: the timer handle, 0 for undefined
    timers,              \* the repeating timers armed by setInterval
    microtasks,          \* continuations of startCheckingFindings and of the
                         \* saveCheckDelay handler waiting to resume, in order
    saves,               \* history: number of saveCheckDelay requests
    saveResult,          \* history: delay and Result of the last of them
    providerConfigFile   \* the run that wrote the provider-config file last,
                         \* in the database-backed implementation

vars == << clock, sentFindingsCache, excludedFindings, notifyConfig, pc, excluded,
           now, sentFindings, nodes, newFindings, config, procs, result, emitted,
           notified, lastRun, started, send, checkDelayCache, checkInterval, timers,
           microtasks, saves, saveResult, saveError, prunedEntries,
           providerConfigFile >>

\* the timer handle, the armed timers with their periods, the stored delay
\* and the start calls in progress
timerState == << checkDelayCache, checkInterval, timers, microtasks >>
scheduler == << timerState, saves, saveResult >>

stored == << excludedFindings, notifyConfig, providerConfigFile >>
locals == << excluded, now, sentFindings, nodes, newFindings, config, procs, saveError >>
history == << notified, lastRun, started, prunedEntries >>

NoConfig == [defaultIds |-> Undefined, defaultIdsType |-> Undefined,
             customFindingIds |-> << >>, customFindingIdsType |-> { }]

NoRun == [kept |-> { }, written |-> << >>, failed |-> FALSE]

NoSend == [pc |-> "idle", reporter |-> << >>, flag |-> "", notifyIds |-> "",
           status |-> "none", result |-> "none"]

\* line 307
DefaultCheckDelay == 60000

InProgress(r) == pc[r] # "idle"

Init ==
    /\ clock = ClockAt(0)
    /\ sentFindingsCache = << >>
    /\ excludedFindings \in ExcludedUniverse
    /\ notifyConfig \in ConfigUniverse
    /\ pc = [r \in AllRuns |-> "idle"]
    /\ excluded = [r \in AllRuns |-> { }]
    /\ now = [r \in AllRuns |-> 0]
    /\ sentFindings = [r \in AllRuns |-> << >>]
    /\ nodes = [r \in AllRuns |-> << >>]
    /\ newFindings = [r \in AllRuns |-> << >>]
    /\ config = [r \in AllRuns |-> NoConfig]
    /\ procs = [r \in AllRuns |-> << >>]
    /\ saveError = [r \in AllRuns |-> FALSE]
    /\ result = [r \in AllRuns |-> "none"]
    /\ emitted = [r \in AllRuns |-> << >>]
    /\ notified = { }
    /\ lastRun = NoRun
    /\ started = 0
    /\ prunedEntries = { }
    /\ send = NoSend
    /\ checkDelayCache = DefaultCheckDelay
    /\ checkInterval = 0
    /\ timers = { }
    \* line 803: init has called startCheckingFindings, which found no handle
    \* to clear, read the delay and is suspended at its await
    /\ microtasks = << [fn |-> "setInterval", delay |-> DefaultCheckDelay] >>
    /\ saves = 0
    /\ saveResult = [delay |-> 0, kind |-> "none"]
    /\ providerConfigFile = "none"

\* time passes
AdvanceClock ==
    /\ \E i \in 0..MaxClock : ClockAt(i) > clock /\ clock' = ClockAt(i)
    /\ UNCHANGED << sentFindingsCache, stored, send, scheduler, pc, locals, result, emitted, history >>

\* the locals of run r are dropped
ClearLocals(r) ==
    /\ excluded' = [excluded EXCEPT ![r] = { }]
    /\ now' = [now EXCEPT ![r] = 0]
    /\ sentFindings' = [sentFindings EXCEPT ![r] = << >>]
    /\ nodes' = [nodes EXCEPT ![r] = << >>]
    /\ newFindings' = [newFindings EXCEPT ![r] = << >>]
    /\ config' = [config EXCEPT ![r] = NoConfig]
    /\ procs' = [procs EXCEPT ![r] = << >>]
    /\ saveError' = [saveError EXCEPT ![r] = FALSE]

\* the run returns res, having selected the findings new; its summary
\* becomes the history of the last run
Return(r, res, new) ==
    /\ pc' = [pc EXCEPT ![r] = "returned"]
    /\ result' = [result EXCEPT ![r] = res]
    /\ lastRun' = [kept |-> { new[i].id : i \in DOMAIN new },
                   written |-> IF new = << >> THEN << >>
                               ELSE updatedSent(sentFindings[r], new, now[r]),
                   failed |-> \E i \in DOMAIN procs[r] : procs[r][i].status # "closed0"]

\* variant: a run starts by dropping the oldest entry of the exclusion list
StartRunExpiringExcluded(r) ==
    /\ pc[r] = "idle"
    /\ pc' = [pc EXCEPT ![r] = "getExcludedFindings"]
    /\ excludedFindings' = IF excludedFindings = << >> THEN << >>
                           ELSE Tail(excludedFindings)
    /\ UNCHANGED << clock, sentFindingsCache, notifyConfig, providerConfigFile, send,
                    scheduler, locals, result, emitted, notified, lastRun,
                    prunedEntries >>

\* lines 464-465: a tick of the timer or a manualCheckFindings call starts a
\* run, which suspends at await getExcludedFindings
StartRun(r) ==
    /\ pc[r] = "idle"
    /\ pc' = [pc EXCEPT ![r] = "getExcludedFindings"]
    /\ UNCHANGED << clock, sentFindingsCache, stored, send, scheduler, locals, result,
                    emitted, notified, lastRun, prunedEntries >>

\* lines 465-468 (and 209-234): reading the exclusion list fails
ExcludedReadError(r) ==
    /\ pc[r] = "getExcludedFindings"
    /\ UNCHANGED << clock, sentFindingsCache, stored, send, scheduler, locals, emitted, notified, started, prunedEntries >>
    /\ Return(r, "Error: Failed to read excluded findings", newFindings[r])

\* lines 465-520: the exclusion list and the sent-log are read, the sent-log
\* is pruned and saved when an entry was dropped, and the query is issued
PruneSentFindings(r) ==
    /\ pc[r] = "getExcludedFindings"
    /\ excluded' = [excluded EXCEPT ![r] = Range(excludedFindings)]
    /\ now' = [now EXCEPT ![r] = clock]
    /\ sentFindings' = [sentFindings EXCEPT ![r] = sentFindingsCache]
    /\ LET cleaned == cleanedSentFindings(sentFindingsCache, clock)
       IN sentFindingsCache' = IF Len(cleaned) # Len(sentFindingsCache)
                               THEN cleaned ELSE sentFindingsCache
    /\ pc' = [pc EXCEPT ![r] = "graphql"]
    /\ UNCHANGED << clock, stored, send, scheduler, nodes, newFindings, config, procs,
                    saveError, result, emitted,
                    notified, lastRun, started >>

\* lines 534-540 and 725-730: the query fails
GraphqlError(r) ==
    /\ pc[r] = "graphql"
    /\ UNCHANGED << clock, sentFindingsCache, stored, send, scheduler, locals, emitted, notified, started, prunedEntries >>
    /\ Return(r, "Error: GraphQL query failed", newFindings[r])

\* variant: a response without nodes goes on to read the destinations
GraphqlNoNodesReadingIds(r) ==
    /\ pc[r] = "graphql"
    /\ config' = [config EXCEPT ![r] = notifyConfig]
    /\ UNCHANGED << excluded, now, sentFindings, nodes, newFindings, procs, saveError >>
    /\ UNCHANGED << clock, sentFindingsCache, stored, send, scheduler, emitted, notified,
                    started, prunedEntries >>
    /\ Return(r, "Ok", newFindings[r])

\* lines 542-544: the response has no nodes
GraphqlNoNodes(r) ==
    /\ pc[r] = "graphql"
    /\ UNCHANGED << clock, sentFindingsCache, stored, send, scheduler, locals, emitted, notified, started, prunedEntries >>
    /\ Return(r, "Ok", newFindings[r])

\* lines 546-608: the response is filtered; with nothing new the run returns,
\* otherwise the extended sent-log is saved and the destinations are read
FilterFindings(r, responses) ==
    /\ pc[r] = "graphql"
    /\ \E response \in responses :
         LET new == NewFindings(response, excluded[r], sentFindings[r], now[r])
         IN /\ nodes' = [nodes EXCEPT ![r] = response]
            /\ newFindings' = [newFindings EXCEPT ![r] = new]
            /\ UNCHANGED << excluded, now, sentFindings, config, procs, saveError >>
            /\ IF new = << >>
               THEN /\ UNCHANGED sentFindingsCache
                    /\ Return(r, "Ok", new)
               ELSE /\ sentFindingsCache' = updatedSent(sentFindings[r], new, now[r])
                    /\ pc' = [pc EXCEPT ![r] = "getNotifyIds"]
                    /\ UNCHANGED << result, lastRun >>
    /\ UNCHANGED << clock, stored, send, scheduler, emitted, notified, started, prunedEntries >>

\* lines 497-499 with the Error branch of saveSentFindings (lines 286-292):
\* the write of the pruned sent-log fails; its Result is not looked at and
\* the query is issued
PruneSaveError(r) ==
    /\ pc[r] = "getExcludedFindings"
    /\ Len(cleanedSentFindings(sentFindingsCache, clock)) # Len(sentFindingsCache)
    /\ excluded' = [excluded EXCEPT ![r] = Range(excludedFindings)]
    /\ now' = [now EXCEPT ![r] = clock]
    /\ sentFindings' = [sentFindings EXCEPT ![r] = sentFindingsCache]
    /\ saveError' = [saveError EXCEPT ![r] = TRUE]
    /\ pc' = [pc EXCEPT ![r] = "graphql"]
    /\ UNCHANGED << clock, sentFindingsCache, stored, send, scheduler, nodes, newFindings,
                    config, procs, result, emitted, history >>

\* lines 546-608 with the Error branch of saveSentFindings: the write of the
\* extended sent-log fails; its Result is not looked at and the destinations
\* are read
FilterSaveError(r, responses) ==
    /\ pc[r] = "graphql"
    /\ \E response \in responses :
         LET new == NewFindings(response, excluded[r], sentFindings[r], now[r])
         IN /\ new # << >>
            /\ nodes' = [nodes EXCEPT ![r] = response]
            /\ newFindings' = [newFindings EXCEPT ![r] = new]
    /\ saveError' = [saveError EXCEPT ![r] = TRUE]
    /\ pc' = [pc EXCEPT ![r] = "getNotifyIds"]
    /\ UNCHANGED << clock, sentFindingsCache, stored, send, scheduler, excluded, now,
                    sentFindings, config, procs, result, emitted, history >>

\* lines 608-611 (and 135-160): reading the destinations fails
NotifyIdsReadError(r) ==
    /\ pc[r] = "getNotifyIds"
    /\ UNCHANGED << clock, sentFindingsCache, stored, send, scheduler, locals, emitted, notified, started, prunedEntries >>
    /\ Return(r, "Error: Failed to read notify IDs", newFindings[r])

\* lines 608-716: the destinations are read; without a default destination
\* the run returns an error, otherwise one notifier process per reporter
\* group is spawned and the run awaits all of them
SpawnNotifiers(r) ==
    /\ pc[r] = "getNotifyIds"
    /\ config' = [config EXCEPT ![r] = notifyConfig]
    /\ UNCHANGED << excluded, now, sentFindings, nodes, newFindings, saveError >>
    /\ IF noDefaultNotifyIds(notifyConfig)
       THEN /\ UNCHANGED << procs, notified >>
            /\ Return(r, "Error: No notify IDs configured", newFindings[r])
       ELSE /\ procs' = [procs EXCEPT ![r] = invocations(notifyConfig, newFindings[r])]
            /\ notified' = notified \cup
                 { newFindings[r][i].id : i \in DOMAIN newFindings[r] }
            /\ pc' = [pc EXCEPT ![r] = "Promise.all"]
            /\ UNCHANGED << result, lastRun >>
    /\ UNCHANGED << clock, sentFindingsCache, stored, send, scheduler, emitted, started, prunedEntries >>

\* a notifier promise settles with outcome s, if it has not settled yet
Settle(r, g, s) ==
    /\ pc[r] = "Promise.all"
    /\ g \in DOMAIN procs[r]
    /\ procs[r][g].status = "running"
    /\ procs' = [procs EXCEPT ![r][g].status = s]
    /\ UNCHANGED << clock, sentFindingsCache, stored, send, scheduler, pc, excluded, now,
                    sentFindings, nodes, newFindings, config, saveError, result, emitted,
                    history >>

\* lines 689-696: the process closes with exit code 0 or another code
ProcClose(r, g) == \E s \in { "closed0", "closedNonZero" } : Settle(r, g, s)

\* lines 698-704: the process cannot be spawned
ProcError(r, g) == Settle(r, g, "error")

\* variant: no watchdog is armed
WatchdogAbsent(r, g) == FALSE /\ Settle(r, g, "timeout")

\* lines 685-687: the 30 second watchdog fires first
Watchdog(r, g) == Settle(r, g, "timeout")

\* lines 716-724: all promises have settled; the event is emitted and the
\* run returns Ok
Join(r) ==
    /\ pc[r] = "Promise.all"
    /\ allSettled(procs[r])
    /\ emitted' = [emitted EXCEPT ![r] =
                      Append(@, findingsSent(newSentFindings(newFindings[r]),
                                             updatedSent(sentFindings[r], newFindings[r],
                                                         now[r])))]
    /\ UNCHANGED << clock, sentFindingsCache, stored, send, scheduler, locals, notified, started, prunedEntries >>
    /\ Return(r, runResult(procs[r]), newFindings[r])

\* variant: the caller cancels the timer when the run returned an Error
FinishCancellingTimer(r) ==
    /\ pc[r] = "returned"
    /\ pc' = [pc EXCEPT ![r] = "idle"]
    /\ result' = [result EXCEPT ![r] = "none"]
    /\ emitted' = [emitted EXCEPT ![r] = << >>]
    /\ ClearLocals(r)
    /\ timers' = IF result[r] # "Ok" THEN { t \in timers : t.id # checkInterval }
                 ELSE timers
    /\ UNCHANGED << clock, sentFindingsCache, stored, send, history, checkDelayCache,
                    checkInterval, microtasks, saves, saveResult >>

\* lines 733-739 and 771-775: the caller (manualCheckFindings or the timer
\* callback) takes the result of the run; the callback logs an Error
Finish(r) ==
    /\ pc[r] = "returned"
    /\ pc' = [pc EXCEPT ![r] = "idle"]
    /\ result' = [result EXCEPT ![r] = "none"]
    /\ emitted' = [emitted EXCEPT ![r] = << >>]
    /\ ClearLocals(r)
    /\ UNCHANGED << clock, sentFindingsCache, stored, send, scheduler, history >>

\* variant: clearing keeps the newest entry of the sent-log
clearSentFindingsKeepingNewest ==
    /\ sentFindingsCache # << >>
    /\ sentFindingsCache' = << sentFindingsCache[Len(sentFindingsCache)] >>
    /\ notified' = { }
    /\ UNCHANGED << clock, stored, send, scheduler, pc, locals, result, emitted, lastRun, started, prunedEntries >>

\* lines 295-305
clearSentFindings ==
    /\ sentFindingsCache # << >>
    /\ sentFindingsCache' = << >>
    /\ notified' = { }
    /\ UNCHANGED << clock, stored, send, scheduler, pc, locals, result, emitted, lastRun, started, prunedEntries >>

\* the steps of a run other than the read and pruning of the sent-log
AfterRead(r, responses) ==
    \/ ExcludedReadError(r)
    \/ GraphqlError(r)
    \/ GraphqlNoNodes(r)
    \/ FilterFindings(r, responses)
    \/ NotifyIdsReadError(r)
    \/ SpawnNotifiers(r)
    \/ \E g \in 1..MaxFetch : ProcClose(r, g) \/ ProcError(r, g) \/ Watchdog(r, g)
    \/ Join(r)
    \/ Finish(r)

RunStep(r, responses) ==
    \/ PruneSentFindings(r) /\ UNCHANGED prunedEntries
    \/ AfterRead(r, responses)

\* the same, the entries that the run prunes being recorded
RunStepRecorded(r, responses) ==
    \/ /\ PruneSentFindings(r)
       /\ prunedEntries' = prunedEntries \cup
             (Range(sentFindingsCache) \ Range(cleanedSentFindings(sentFindingsCache, clock)))
    \/ AfterRead(r, responses)

\* a run starts while the other may be in progress
StartRunAnytime(r) == started < MaxRuns /\ started' = started + 1 /\ StartRun(r)

\* runs of the timer and manual runs may overlap
Next ==
    \/ AdvanceClock
    \/ clearSentFindings
    \/ \E r \in Runs : StartRunAnytime(r) \/ RunStep(r, Responses(MaxFetchOverlap))

\* the overlapping runs are explored for the empty exclusion list
InitOverlap == Init /\ excludedFindings = << >>

Spec == InitOverlap /\ [][Next]_vars

(***************************************************************************)
(* Overlapping runs with the pruned entries recorded: a run that started   *)
(* before an entry was written, one that read the entry, and one that      *)
(* pruned it.                                                              *)
(***************************************************************************)
StartRunAgain(r) == started < MaxRestarts /\ started' = started + 1 /\ StartRun(r)

NextRestore ==
    \/ AdvanceClock
    \/ \E r \in Runs : StartRunAgain(r) \/ RunStepRecorded(r, Responses(MaxFetchOverlap))

InitRestore == InitOverlap /\ notifyConfig.defaultIdsType = "id"

SpecRestore == InitRestore /\ [][NextRestore]_vars

\* a run starts only when no run is in progress
StartRunAlone(r) == (\A q \in Runs : ~InProgress(q)) /\ StartRun(r) /\ UNCHANGED started

\* non-overlapping runs, no clearSentFindings call
NextSeq ==
    \/ AdvanceClock
    \/ \E r \in Runs : StartRunAlone(r) \/ RunStep(r, Responses(MaxFetch))

SpecSeq == Init /\ [][NextSeq]_vars

(***************************************************************************)
(* Runs that do not overlap, the sent-log being cleared between them.      *)
(***************************************************************************)
NextClear ==
    \/ AdvanceClock
    \/ (\A q \in Runs : ~InProgress(q)) /\ clearSentFindings
    \/ \E r \in Runs : StartRunAlone(r) \/ RunStep(r, Responses(MaxFetchOverlap))

InitClear == Init /\ notifyConfig.defaultIdsType = "id"

SpecClear == InitClear /\ [][NextClear]_vars

(***************************************************************************)
(* sendNotification (lines 385-462).                                       *)
(***************************************************************************)
\* reporters a sendNotification call can name; the empty string stands for
\* a call without reporter (both are falsy at line 399)
SendReporters == { << >>, <<"S", "q">>, <<"S", "Q">>, <<"Z">> }

\* lines 395-414
sendDestination(cfg, reporter) ==
    IF reporter = << >>
    THEN [notifyIds |-> defaultNotifyIds(cfg), idsType |-> defaultIdsType(cfg)]
    ELSE resolveDestination(cfg, reporter)

\* lines 385-390: the call suspends at await getNotifyIds
sendNotification(reporter) ==
    /\ send.pc = "idle"
    /\ send' = [NoSend EXCEPT !.pc = "getNotifyIds", !.reporter = reporter]
    /\ UNCHANGED << clock, sentFindingsCache, stored, pc, locals, result, emitted,
                    history, scheduler >>

\* lines 391-393
SendReadError ==
    /\ send.pc = "getNotifyIds"
    /\ send' = [send EXCEPT !.pc = "returned",
                            !.result = "Error: Failed to read notify IDs"]
    /\ UNCHANGED << clock, sentFindingsCache, stored, pc, locals, result, emitted,
                    history, scheduler >>

\* lines 395-433 and 459-460: the destination is resolved; without one the
\* call returns an error, otherwise the notifier is spawned
SendSpawn ==
    /\ send.pc = "getNotifyIds"
    /\ LET dest == sendDestination(notifyConfig, send.reporter)
       IN IF dest.notifyIds = ""
          THEN send' = [send EXCEPT !.pc = "returned",
                                    !.result = "Error: No notify IDs configured"]
          ELSE send' = [send EXCEPT !.pc = "spawned",
                                    !.status = "running",
                                    !.notifyIds = dest.notifyIds,
                                    !.flag = IF dest.idsType = "provider"
                                             THEN "-provider" ELSE "-id"]
    /\ UNCHANGED << clock, sentFindingsCache, stored, pc, locals, result, emitted,
                    history, scheduler >>

\* variant: the exit code is only logged, as in the pipeline run
closeResultOk(status) == "Ok"

\* lines 442-449: the value the promise resolves with when the process closes
closeResult(status) ==
    IF status = "closed0" THEN "Ok" ELSE "Error: Notify command failed"

\* lines 441-450: the process closes with exit code 0 or another code
SendClose ==
    /\ send.pc = "spawned"
    /\ \E s \in { "closed0", "closedNonZero" } :
          send' = [send EXCEPT !.pc = "returned", !.status = s,
                               !.result = closeResult(s)]
    /\ UNCHANGED << clock, sentFindingsCache, stored, pc, locals, result, emitted,
                    history, scheduler >>

\* lines 452-457: the process cannot be spawned
SendProcError ==
    /\ send.pc = "spawned"
    /\ send' = [send EXCEPT !.pc = "returned", !.status = "error",
                            !.result = "Error: Failed to execute notify"]
    /\ UNCHANGED << clock, sentFindingsCache, stored, pc, locals, result, emitted,
                    history, scheduler >>

\* the caller takes the result
SendFinish ==
    /\ send.pc = "returned"
    /\ send' = NoSend
    /\ UNCHANGED << clock, sentFindingsCache, stored, pc, locals, result, emitted,
                    history, scheduler >>

NextSend ==
    \/ \E reporter \in SendReporters : sendNotification(reporter)
    \/ SendReadError
    \/ SendSpawn
    \/ SendClose
    \/ SendProcError
    \/ SendFinish

\* sendNotification calls, one at a time, for every stored configuration
SpecSend == Init /\ [][NextSend]_vars

(***************************************************************************)
(* The scheduler: saveCheckDelay (lines 320-333), its registered handler   *)
(* (lines 791-797) and startCheckingFindings (lines 762-777).  A handler   *)
(* and a start call are suspended at each of their awaits; the suspended   *)
(* continuations resume in the order in which they were suspended, and a   *)
(* request may arrive while continuations are waiting.                     *)
(***************************************************************************)
\* delays a saveCheckDelay request can carry
DelayValues == { 500, 999, 1000, 2000 }

\* variant: only delays below half a second are refused
delayTooShortHalf(delay) == delay < 500

\* line 322
delayTooShort(delay) == delay < 1000

\* handles are numbered in the order in which setInterval returns them
freshTimer == checkInterval + 1

\* variant: the delay is stored before it is checked
saveCheckDelayStoringFirst(delay) ==
    /\ saves < MaxSaves
    /\ saves' = saves + 1
    /\ checkDelayCache' = delay
    /\ IF delayTooShort(delay)
       THEN /\ saveResult' = [delay |-> delay, kind |-> "Error"]
            /\ UNCHANGED << checkInterval, timers, microtasks >>
       ELSE /\ saveResult' = [delay |-> delay, kind |-> "Ok"]
            /\ microtasks' = Append(microtasks, [fn |-> "startCheckingFindings",
                                                 delay |-> delay])
            /\ UNCHANGED << checkInterval, timers >>
    /\ UNCHANGED << clock, sentFindingsCache, stored, pc, locals, result, emitted,
                    history, send >>

\* lines 791-793 and 320-333: a saveCheckDelay request; the handler calls
\* saveCheckDelay, which refuses the delay or stores it, and suspends at its
\* await; with an Error result its continuation only returns the result
saveCheckDelay(delay) ==
    /\ saves < MaxSaves
    /\ saves' = saves + 1
    /\ IF delayTooShort(delay)
       THEN /\ saveResult' = [delay |-> delay, kind |-> "Error"]
            /\ UNCHANGED timerState
       ELSE /\ saveResult' = [delay |-> delay, kind |-> "Ok"]
            /\ checkDelayCache' = delay
            /\ microtasks' = Append(microtasks, [fn |-> "startCheckingFindings",
                                                 delay |-> delay])
            /\ UNCHANGED << checkInterval, timers >>
    /\ UNCHANGED << clock, sentFindingsCache, stored, pc, locals, result, emitted,
                    history, send >>

\* lines 793-794 and 762-767: the handler resumes with an Ok result and calls
\* startCheckingFindings, which clears the timer of the current handle,
\* reads the stored delay and suspends at its await
startCheckingFindings ==
    /\ microtasks # << >>
    /\ Head(microtasks).fn = "startCheckingFindings"
    /\ timers' = { t \in timers : t.id # checkInterval }
    /\ microtasks' = Append(Tail(microtasks),
                            [fn |-> "setInterval", delay |-> checkDelayCache])
    /\ UNCHANGED << checkDelayCache, checkInterval, saves, saveResult >>
    /\ UNCHANGED << clock, sentFindingsCache, stored, pc, locals, result, emitted,
                    history, send >>

\* variant: the timer is armed with no delay
armTimerImmediate ==
    /\ microtasks # << >>
    /\ Head(microtasks).fn = "setInterval"
    /\ timers' = timers \cup { [id |-> freshTimer, delay |-> 0] }
    /\ checkInterval' = freshTimer
    /\ microtasks' = Tail(microtasks)
    /\ UNCHANGED << checkDelayCache, saves, saveResult >>
    /\ UNCHANGED << clock, sentFindingsCache, stored, pc, locals, result, emitted,
                    history, send >>

\* lines 768-775: startCheckingFindings resumes and arms a repeating timer
\* with the delay it read, and keeps its handle
armTimer ==
    /\ microtasks # << >>
    /\ Head(microtasks).fn = "setInterval"
    /\ timers' = timers \cup { [id |-> freshTimer, delay |-> Head(microtasks).delay] }
    /\ checkInterval' = freshTimer
    /\ microtasks' = Tail(microtasks)
    /\ UNCHANGED << checkDelayCache, saves, saveResult >>
    /\ UNCHANGED << clock, sentFindingsCache, stored, pc, locals, result, emitted,
                    history, send >>

\* lines 770-771: an armed timer fires and its callback starts a run
tick == timers # { } /\ StartRun("tick")

\* variant: the manual trigger also restarts the timer
manualCheckFindingsRestarting ==
    /\ pc["manual"] = "idle"
    /\ pc' = [pc EXCEPT !["manual"] = "getExcludedFindings"]
    /\ timers' = { t \in timers : t.id # checkInterval }
    /\ microtasks' = Append(microtasks, [fn |-> "setInterval", delay |-> checkDelayCache])
    /\ UNCHANGED << clock, sentFindingsCache, stored, locals, result, emitted, notified,
                    lastRun, prunedEntries, send, checkDelayCache, checkInterval, saves,
                    saveResult >>

\* lines 733-734
manualCheckFindings == StartRun("manual")

NextSched ==
    \/ \E delay \in DelayValues : saveCheckDelay(delay)
    \/ startCheckingFindings
    \/ armTimer
    \/ (\A q \in Runs : ~InProgress(q)) /\ tick /\ UNCHANGED started
    \/ (\A q \in Runs : ~InProgress(q)) /\ manualCheckFindings /\ UNCHANGED started
    \/ \E r \in Runs : RunStep(r, Responses(MaxFetchOverlap))

\* the scheduler is explored for one stored configuration
InitSched == Init /\ excludedFindings = << >> /\ notifyConfig.defaultIdsType = "id"

SpecSched == InitSched /\ [][NextSched]_vars

(***************************************************************************)
(* The saveCheckDelay requests and the timer alone, for more arguments.    *)
(***************************************************************************)
DelayArguments == DelayValues \cup { -1, 0, 1001, 86400000 }

NextDelay ==
    \/ \E delay \in DelayArguments : saveCheckDelay(delay)
    \/ startCheckingFindings
    \/ armTimer

SpecDelay == InitSched /\ [][NextDelay]_vars

(***************************************************************************)
(* The timer and the runs of its callbacks: a callback is invoked when the *)
(* period has passed, the run of the callback before it returned or not.   *)
(***************************************************************************)
\* lines 770-771: the armed timer fires again
tickAgain == timers # { } /\ StartRun("tick2")

\* MaxRuns callbacks of the timer are followed
NextTicks ==
    \/ \E delay \in DelayValues : saveCheckDelay(delay)
    \/ startCheckingFindings
    \/ armTimer
    \/ started < MaxRuns /\ started' = started + 1 /\ tick
    \/ started < MaxRuns /\ started' = started + 1 /\ tickAgain
    \/ \E r \in TickRuns : RunStep(r, Responses(MaxFetchOverlap))

SpecTicks == InitSched /\ [][NextTicks]_vars

(***************************************************************************)
(* Progress of a run after its fetch.  The storage read of getNotifyIds    *)
(* returns, a watchdog that is armed fires unless the process settles      *)
(* first, and a run whose promises have all resolved resumes.  A notifier  *)
(* process need not ever close or fail.                                    *)
(***************************************************************************)
AfterFetch(r) ==
    \/ NotifyIdsReadError(r)
    \/ SpawnNotifiers(r)
    \/ \E g \in 1..MaxFetch : Watchdog(r, g)
    \/ Join(r)

NextLive ==
    \/ \E r \in Runs : StartRunAlone(r) \/ RunStep(r, Responses(MaxFetch))

InitLive == Init /\ excludedFindings = << >> /\ notifyConfig.defaultIdsType = "id"

SpecLive == InitLive /\ [][NextLive]_vars /\ \A r \in Runs : WF_vars(AfterFetch(r))

(***************************************************************************)
(* Runs in which a write of the sent-log can fail.                         *)
(***************************************************************************)
NextPersist ==
    \/ AdvanceClock
    \/ \E r \in Runs : \/ StartRunAlone(r)
                       \/ RunStep(r, Responses(MaxFetchOverlap))
                       \/ PruneSaveError(r)
                       \/ FilterSaveError(r, Responses(MaxFetchOverlap))

SpecPersist == InitLive /\ [][NextPersist]_vars

(***************************************************************************)
(* The exclusion list (lines 360-383).  A call reads the stored list,      *)
(* changes its copy and saves it; calls are made one at a time.  A call    *)
(* whose read or save fails leaves the stored list as it was.              *)
(***************************************************************************)
\* ids and reporter names a call can be given
ExcludedArguments == { <<"f", "1">>, <<"F", "1">>, <<"z">>, <<"S", "q">> }

\* variant: the id is pushed whether or not the list includes it
excludedWithPushed(list, findingId) == Append(list, findingId)

\* lines 366-369: excluded.includes(findingId), excluded.push(findingId)
excludedWith(list, findingId) ==
    IF findingId \in Range(list) THEN list ELSE Append(list, findingId)

\* line 381: excluded.filter((id) => id !== findingId)
excludedWithout(list, findingId) ==
    SelectSeq(list, LAMBDA id : id # findingId)

\* lines 360-373
addExcludedFinding(findingId) ==
    /\ \/ excludedFindings' = excludedWith(excludedFindings, findingId)
       \/ UNCHANGED excludedFindings
    /\ UNCHANGED << clock, sentFindingsCache, notifyConfig, providerConfigFile, send,
                    scheduler, pc, locals, result, emitted, history >>

\* lines 375-383
removeExcludedFinding(findingId) ==
    /\ \/ excludedFindings' = excludedWithout(excludedFindings, findingId)
       \/ UNCHANGED excludedFindings
    /\ UNCHANGED << clock, sentFindingsCache, notifyConfig, providerConfigFile, send,
                    scheduler, pc, locals, result, emitted, history >>

NextExcluded ==
    \E findingId \in ExcludedArguments :
        addExcludedFinding(findingId) \/ removeExcludedFinding(findingId)

\* calls on the exclusion list, for every stored list and configuration
SpecExcluded == Init /\ [][NextExcluded]_vars

\* runs, one at a time, between calls on the exclusion list
NextStored ==
    \/ \E findingId \in { <<"f", "1">>, <<"S", "q">> } :
          addExcludedFinding(findingId) \/ removeExcludedFinding(findingId)
    \/ \E r \in Runs : StartRunAlone(r) \/ RunStep(r, Responses(MaxFetchOverlap))

SpecStored == InitLive /\ [][NextStored]_vars

(***************************************************************************)
(* Changes of the destination configuration (saveNotifyIds, lines          *)
(* 113-133), which stores the object it is given, and the runs that read   *)
(* it.                                                                     *)
(***************************************************************************)
\* configurations the settings page can save
SavedConfigs ==
    ConfigUniverse \cup
    { [defaultIds |-> "default-chan", defaultIdsType |-> Undefined,
       customFindingIds |-> << [key |-> <<"s", "q">>, id |-> "sq-chan"] >>,
       customFindingIdsType |-> { }],
      [defaultIds |-> "default-chan", defaultIdsType |-> "provider",
       customFindingIds |-> << [key |-> <<"s", "q">>, id |-> "sq-chan"] >>,
       customFindingIdsType |-> { [key |-> <<"s", "q">>, type |-> "id"] }] }

\* lines 113-117
saveNotifyIds(cfg) ==
    /\ notifyConfig' = cfg
    /\ UNCHANGED << clock, sentFindingsCache, excludedFindings, providerConfigFile,
                    send, scheduler, pc, locals, result, emitted, history >>

NextKinds ==
    \/ \E cfg \in SavedConfigs : saveNotifyIds(cfg)
    \/ \E r \in Runs : StartRunAlone(r) \/ RunStep(r, Responses(MaxFetch))

SpecKinds == InitLive /\ [][NextKinds]_vars

(***************************************************************************)
(* The database-backed implementation (types.ts).  Its run differs after   *)
(* the destinations are read: the provider-config content is read from the *)
(* database and written to the file whose path the notifier is given       *)
(* (types.ts lines 752-772), and then the notifiers are spawned.           *)
(***************************************************************************)
\* types.ts lines 739-756: the destinations are read; without a default
\* destination the run returns an error, otherwise it suspends at
\* await getProviderConfig
ReadNotifyIds(r) ==
    /\ pc[r] = "getNotifyIds"
    /\ config' = [config EXCEPT ![r] = notifyConfig]
    /\ UNCHANGED << excluded, now, sentFindings, nodes, newFindings, saveError, procs,
                    notified >>
    /\ IF noDefaultNotifyIds(notifyConfig)
       THEN Return(r, "Error: No notify IDs configured", newFindings[r])
       ELSE /\ pc' = [pc EXCEPT ![r] = "getProviderConfig"]
            /\ UNCHANGED << result, lastRun >>
    /\ UNCHANGED << clock, sentFindingsCache, stored, send, scheduler, emitted, started,
                    prunedEntries >>

\* the run returns the error res before its fan-out
ReturnBeforeFanOut(r, res) ==
    /\ pc[r] = "getProviderConfig"
    /\ UNCHANGED << clock, sentFindingsCache, stored, send, scheduler, locals, emitted,
                    notified, started, prunedEntries >>
    /\ Return(r, res, newFindings[r])

\* types.ts lines 753-756: the content cannot be read
ProviderConfigReadError(r) == ReturnBeforeFanOut(r, "Error: Failed to read provider config")

\* types.ts lines 759-762: the directory cannot be created
EnsureConfigDirError(r) == ReturnBeforeFanOut(r, "Error: Failed to create config directory")

\* variant: a failed write of the file is passed over and the notifiers are
\* spawned
WriteFileErrorIgnored(r) ==
    /\ pc[r] = "getProviderConfig"
    /\ procs' = [procs EXCEPT ![r] = invocations(config[r], newFindings[r])]
    /\ notified' = notified \cup { newFindings[r][i].id : i \in DOMAIN newFindings[r] }
    /\ pc' = [pc EXCEPT ![r] = "Promise.all"]
    /\ UNCHANGED << excluded, now, sentFindings, nodes, newFindings, config, saveError,
                    result, lastRun >>
    /\ UNCHANGED << clock, sentFindingsCache, stored, send, scheduler, emitted, started,
                    prunedEntries >>

\* types.ts lines 765-772: the file cannot be written
WriteFileError(r) ==
    ReturnBeforeFanOut(r, "Error: Failed to write provider config to file")

\* types.ts lines 753-853: the content is read and written to the file, and
\* one notifier process per reporter group is spawned
WriteFileAndSpawn(r) ==
    /\ pc[r] = "getProviderConfig"
    /\ providerConfigFile' = r
    /\ procs' = [procs EXCEPT ![r] = invocations(config[r], newFindings[r])]
    /\ notified' = notified \cup { newFindings[r][i].id : i \in DOMAIN newFindings[r] }
    /\ pc' = [pc EXCEPT ![r] = "Promise.all"]
    /\ UNCHANGED << excluded, now, sentFindings, nodes, newFindings, config, saveError,
                    result, lastRun >>
    /\ UNCHANGED << clock, sentFindingsCache, excludedFindings, notifyConfig, send,
                    scheduler, emitted, started, prunedEntries >>

RunStepDb(r, responses) ==
    \/ PruneSentFindings(r) /\ UNCHANGED prunedEntries
    \/ ExcludedReadError(r)
    \/ GraphqlError(r)
    \/ GraphqlNoNodes(r)
    \/ FilterFindings(r, responses)
    \/ NotifyIdsReadError(r)
    \/ ReadNotifyIds(r)
    \/ ProviderConfigReadError(r)
    \/ EnsureConfigDirError(r)
    \/ WriteFileError(r)
    \/ WriteFileAndSpawn(r)
    \/ \E g \in 1..MaxFetch : ProcClose(r, g) \/ ProcError(r, g) \/ Watchdog(r, g)
    \/ Join(r)
    \/ Finish(r)

NextDb ==
    \/ \E cfg \in ConfigUniverse : saveNotifyIds(cfg)
    \/ \E r \in Runs : StartRunAlone(r) \/ RunStepDb(r, Responses(MaxFetch))

SpecDb == InitLive /\ [][NextDb]_vars

(***************************************************************************)
(* Properties.                                                             *)
(***************************************************************************)
Ids(findings) == { findings[i].id : i \in DOMAIN findings }

IdSeq(findings) == [i \in DOMAIN findings |-> findings[i].id]

LogIds(log) == { log[i].findingId : i \in DOMAIN log }

\* run r has computed its selection and not yet returned
Selecting(r) == pc[r] \in { "getNotifyIds", "Promise.all" }

\* run r holds the outcome of its filter step (empty if it returned before)
Filtered(r) == pc[r] \in { "getNotifyIds", "Promise.all", "returned" }

\* the ids in the messages handed to the notifier processes of run r
MessageIds(r) == UNION { Range(procs[r][g].bulkMessage) : g \in DOMAIN procs[r] }

\* an exclusion entry equals the string s when case is ignored
MatchesAnyCase(excl, s) == \E e \in excl : toLowerCase(e) = toLowerCase(s)

\* C1: with non-overlapping runs and no clearSentFindings call, a run never
\* passes to the notifier a finding id that an earlier run passed to it.
C1_NoDuplicateNotification ==
    [][\A r \in Runs :
         (pc[r] = "getNotifyIds" /\ pc'[r] = "Promise.all")
             => Ids(newFindings[r]) \cap notified = { }]_vars

\* C2: if a run kept a finding and the next run reads the sent-log exactly as
\* that run wrote it, the next run does not keep the finding.
C2_NextRunDoesNotKeep ==
    \A r \in Runs :
        (Selecting(r) /\ lastRun.kept # { } /\ sentFindings[r] = lastRun.written)
            => Ids(newFindings[r]) \cap lastRun.kept = { }

\* the sent-log holding the ids of the selected findings is in storage when
\* the notifier processes of the run exist
WrittenBeforeSpawn ==
    \A r \in Runs :
        pc[r] = "Promise.all" => Ids(newFindings[r]) \subseteq LogIds(sentFindingsCache)

\* C3: the sent-log with the selected ids is written before the first
\* notifier process is spawned, so that after a dispatch that failed or timed
\* out the next run does not select those findings again.
C3_WrittenBeforeSpawnSoNoReselect ==
    /\ WrittenBeforeSpawn
    /\ \A r \in Runs :
          (Selecting(r) /\ lastRun.failed)
              => Ids(newFindings[r]) \cap lastRun.kept = { }

\* C4: no finding whose derived timestamp is <= now - 3600000 is kept or
\* dispatched by a run, whether or not it is excluded or in the sent-log.
C4_OldFindingsNeverKept ==
    \A r \in Runs :
        Filtered(r) =>
            \A i \in DOMAIN nodes[r] :
                findingTimestamp(nodes[r][i], now[r]) <= now[r] - 3600000
                    => /\ nodes[r][i].id \notin Ids(newFindings[r])
                       /\ nodes[r][i].id \notin MessageIds(r)

\* a run has filtered a response holding a finding exactly one hour old that
\* is neither excluded nor in the sent-log, and another that it kept
C4_Witness ==
    \E r \in Runs :
        /\ Filtered(r)
        /\ newFindings[r] # << >>
        /\ \E i \in DOMAIN nodes[r] :
              /\ findingTimestamp(nodes[r][i], now[r]) = now[r] - 3600000
              /\ nodes[r][i].id \notin excluded[r]
              /\ nodes[r][i].id \notin LogIds(sentFindings[r])

\* C5: a finding whose reporter equals an exclusion entry when case is ignored
\* is not kept and not dispatched.
C5_ReporterExcludedAnyCase ==
    \A r \in Runs :
        Filtered(r) =>
            \A i \in DOMAIN nodes[r] :
                MatchesAnyCase(excluded[r], nodes[r][i].reporter)
                    => /\ nodes[r][i].id \notin Ids(newFindings[r])
                       /\ nodes[r][i].id \notin MessageIds(r)

\* C6: a finding whose id is exactly an exclusion entry is not kept and not
\* dispatched; an entry that differs from the id only by case does not
\* exclude it: if it is recent, unsent and no entry matches its reporter, it
\* is kept.
C6_IdExcludedExactly ==
    \A r \in Runs :
        Filtered(r) =>
            \A i \in DOMAIN nodes[r] :
                LET f == nodes[r][i]
                IN /\ f.id \in excluded[r]
                        => /\ f.id \notin Ids(newFindings[r])
                           /\ f.id \notin MessageIds(r)
                   /\ ( /\ f.id \notin excluded[r]
                        /\ MatchesAnyCase(excluded[r], f.id)
                        /\ ~MatchesAnyCase(excluded[r], f.reporter)
                        /\ findingTimestamp(f, now[r]) > now[r] - 3600000
                        /\ f.id \notin LogIds(sentFindings[r]) )
                        => f.id \in Ids(newFindings[r])

\* a run kept a finding although an exclusion entry differs from its id only
\* by case
C6_Witness ==
    \E r \in Runs :
        /\ Filtered(r)
        /\ \E i \in DOMAIN newFindings[r] :
              /\ newFindings[r][i].id \notin excluded[r]
              /\ MatchesAnyCase(excluded[r], newFindings[r][i].id)

\* the reference filter of the specification (section 4.1)
ReferenceKeep(findings, excl, log, t) ==
    LET cutoff == t - 3600000
        pruned == SelectSeq(log, LAMBDA e : e.timestamp > cutoff)
    IN SelectSeq(findings,
                 LAMBDA f : /\ findingTimestamp(f, t) > cutoff
                            /\ f.id \notin excl
                            /\ ~MatchesAnyCase(excl, f.reporter)
                            /\ f.id \notin LogIds(pruned))

\* C7: the findings a run selects are exactly those of the reference filter
\* (recent, id not excluded, reporter not excluded ignoring case, id not in
\* the pruned sent-log), in source order.
C7_SelectionEqualsReference ==
    \A r \in Runs :
        Filtered(r) =>
            IdSeq(newFindings[r])
                = IdSeq(ReferenceKeep(nodes[r], excluded[r], sentFindings[r], now[r]))

\* C8: when a run with current time now returns, the stored sent-log has no
\* entry with timestamp <= now - 3600000.
C8_NoStaleEntryAtReturn ==
    [][\A r \in Runs :
         (pc[r] # "returned" /\ pc'[r] = "returned" /\ now[r] # 0)
             => \A i \in DOMAIN sentFindingsCache' :
                    sentFindingsCache'[i].timestamp > now[r] - 3600000]_vars

\* C9: the filter step applied again, to the same findings, exclusion set and
\* now and to the sent-log as the first application left it (pruned, nothing
\* added), yields the same kept findings and the same pruned sent-log.
C9_FilterIdempotent ==
    \A r \in Runs :
        Filtered(r) =>
            LET pruned == cleanedSentFindings(sentFindings[r], now[r])
            IN /\ NewFindings(nodes[r], excluded[r], pruned, now[r]) = newFindings[r]
               /\ cleanedSentFindings(pruned, now[r]) = pruned

\* a run pruned an entry from the sent-log it read and kept a finding
C9_Witness ==
    \E r \in Runs :
        /\ Filtered(r)
        /\ Len(cleanedSentFindings(sentFindings[r], now[r])) < Len(sentFindings[r])
        /\ newFindings[r] # << >>

\* C10: each notifier invocation of a run gets the override destination of
\* the first key of the per-reporter map that equals the group's reporter
\* when case is ignored, and the default destination and default kind when
\* there is no such key.
C10_DestinationResolution ==
    \A r \in Runs :
        \A g \in DOMAIN procs[r] :
            LET p == procs[r][g]
                custom == config[r].customFindingIds
                hits == { i \in DOMAIN custom :
                            toLowerCase(custom[i].key) = toLowerCase(p.reporter) }
            IN IF hits # { }
               THEN \E i \in hits : /\ \A j \in hits : i <= j
                                    /\ p.notifyIds = custom[i].id
               ELSE /\ p.notifyIds = config[r].defaultIds
                    /\ p.flag = IF config[r].defaultIdsType = "provider"
                                THEN "-provider" ELSE "-id"

\* a notifier was invoked with the override stored under a key that differs
\* from the group's reporter by case, next to a group sent to the default
C10_Witness ==
    \E r \in Runs :
        /\ \E g \in DOMAIN procs[r] :
              \E i \in DOMAIN config[r].customFindingIds :
                  /\ config[r].customFindingIds[i].key # procs[r][g].reporter
                  /\ toLowerCase(config[r].customFindingIds[i].key)
                        = toLowerCase(procs[r][g].reporter)
                  /\ procs[r][g].notifyIds = config[r].customFindingIds[i].id
                  /\ procs[r][g].notifyIds # config[r].defaultIds
        /\ \E g \in DOMAIN procs[r] : procs[r][g].notifyIds = config[r].defaultIds

\* the reporter strings of the findings
Reporters(findings) == { findings[i].reporter : i \in DOMAIN findings }

\* run r has reached the fan-out
FannedOut(r) == pc[r] = "Promise.all" \/ procs[r] # << >>

\* no key of the per-reporter map equals a reporter of the findings when
\* case is ignored
NoOverrideApplies(cfg, findings) ==
    \A i \in DOMAIN findings :
        \A k \in DOMAIN cfg.customFindingIds :
            toLowerCase(cfg.customFindingIds[k].key) # toLowerCase(findings[i].reporter)

\* C11: a run with new findings that has read a configuration whose default
\* destination is empty, no override applying to a kept finding, returns the
\* error "No notify IDs configured" and spawns no notifier; no run that
\* returned this error has spawned a notifier, so the check precedes the
\* first invocation.
C11_NoNotifyIdsConfigured ==
    /\ [][\A r \in Runs :
            ( /\ pc[r] = "getNotifyIds"
              /\ pc'[r] # "getNotifyIds"
              /\ result'[r] # "Error: Failed to read notify IDs"
              /\ newFindings[r] # << >>
              /\ notifyConfig.defaultIds \in { "", Undefined }
              /\ NoOverrideApplies(notifyConfig, newFindings[r]) )
                => /\ result'[r] = "Error: No notify IDs configured"
                   /\ procs'[r] = << >>]_vars
    /\ [](\A r \in Runs :
            result[r] = "Error: No notify IDs configured" => procs[r] = << >>)

\* a run with new findings, none with an override, returned the error
C11_Witness ==
    \E r \in Runs :
        /\ pc[r] = "returned"
        /\ result[r] = "Error: No notify IDs configured"
        /\ newFindings[r] # << >>
        /\ notifyConfig.defaultIds = ""
        /\ NoOverrideApplies(notifyConfig, newFindings[r])

\* C12: every notifier invocation of a run and of sendNotification is passed
\* a non-empty destination value.
C12_DestinationNonEmpty ==
    /\ \A r \in Runs : \A g \in DOMAIN procs[r] : procs[r][g].notifyIds # ""
    /\ send.flag # "" => send.notifyIds # ""

C14_FailureIsolated ==
    \A r \in Runs :
        /\ FannedOut(r) => Len(procs[r]) = Cardinality(Reporters(newFindings[r]))
        /\ ( /\ pc[r] = "returned"
             /\ \E g \in DOMAIN procs[r] :
                   procs[r][g].status \in { "closedNonZero", "timeout" }
             /\ \A g \in DOMAIN procs[r] : procs[r][g].status # "error" )
               => result[r] = "Ok"

\* a run of two groups returned after one notifier exited with a non-zero
\* code and the other with code 0
C14_Witness ==
    \E r \in Runs :
        /\ pc[r] = "returned"
        /\ result[r] = "Ok"
        /\ \E g, h \in DOMAIN procs[r] :
              /\ procs[r][g].status = "closedNonZero"
              /\ procs[r][h].status = "closed0"

\* C15: a run that fanned out returns an Error result exactly when the spawn
\* of one of its notifier invocations failed; a non-zero exit does not make
\* it return an Error.
C15_SpawnErrorFailsRun ==
    \A r \in Runs :
        (pc[r] = "returned" /\ procs[r] # << >>)
            => (result[r] # "Ok" <=> \E g \in DOMAIN procs[r] : procs[r][g].status = "error")

\* C16: a run whose fetch has returned new findings eventually returns, even
\* if no notifier process ever closes; an invocation that timed out has
\* resolved with success.
C16_HungNotifierDoesNotBlock ==
    /\ \A r \in Runs : (pc[r] \in { "getNotifyIds", "Promise.all" }) ~> (pc[r] = "returned")
    /\ [](\A r \in Runs : \A g \in DOMAIN procs[r] :
            procs[r][g].status = "timeout" => resolved(procs[r][g].status) = "Ok")

\* a run returned Ok after the watchdog of each of its invocations fired
C16_Witness ==
    \E r \in Runs :
        /\ pc[r] = "returned"
        /\ result[r] = "Ok"
        /\ procs[r] # << >>
        /\ \A g \in DOMAIN procs[r] : procs[r][g].status = "timeout"

\* C17: while a run awaits its invocations every group has been started, and
\* a run that fanned out has not returned and has not emitted "findings-sent"
\* while one of its invocations is unsettled.
C17_JoinedNotRaced ==
    \A r \in Runs :
        /\ pc[r] = "Promise.all"
              => /\ Len(procs[r]) = Cardinality(Reporters(newFindings[r]))
                 /\ emitted[r] = << >>
        /\ (pc[r] = "returned" \/ emitted[r] # << >>)
              => \A g \in DOMAIN procs[r] : procs[r][g].status # "running"

\* a run of two groups emitted the event and returned after one invocation
\* timed out and the other failed to spawn
C17_Witness ==
    \E r \in Runs :
        /\ pc[r] = "returned"
        /\ emitted[r] # << >>
        /\ \E g, h \in DOMAIN procs[r] :
              /\ procs[r][g].status = "timeout"
              /\ procs[r][h].status = "error"

\* C18: at most one repeating timer is armed in every reachable state.
C18_AtMostOneTimer == Cardinality(timers) <= 1

\* C19: a saveCheckDelay request with a delay below 1000 returns an Error
\* result and changes neither the stored delay, nor the timer handle, nor the
\* armed timers, and starts no startCheckingFindings call.
C19_ShortDelayRefused ==
    [][(saves' # saves /\ saveResult'.delay < 1000)
          => /\ saveResult'.kind = "Error"
             /\ UNCHANGED timerState]_vars

\* saveCheckDelay(500) was refused while a timer armed with another period
\* than the default was active
C19_Witness ==
    /\ saveResult = [delay |-> 500, kind |-> "Error"]
    /\ \E t \in timers : t.id = checkInterval /\ t.delay # DefaultCheckDelay

\* C20: no step of a manual run, from the call to its return, changes the
\* timer handle, the armed timers and their periods, or the stored delay.
C20_ManualLeavesScheduler ==
    [][(pc'["manual"] # pc["manual"] \/ procs'["manual"] # procs["manual"])
          => UNCHANGED << checkInterval, timers, checkDelayCache, microtasks >>]_vars

\* a manual run returned an Error while a timer was armed
C20_Witness ==
    /\ pc["manual"] = "returned"
    /\ result["manual"] # "Ok"
    /\ \E t \in timers : t.id = checkInterval

\* C21: the step by which a run started by a tick returns an Error, and the
\* step by which the timer callback takes that result, change neither the
\* timer handle, nor the armed timers and their periods, nor the stored delay:
\* the timer that fired stays armed for later ticks.
C21_TickErrorOnlyLogged ==
    [][( \/ pc["tick"] # "returned" /\ pc'["tick"] = "returned" /\ result'["tick"] # "Ok"
         \/ pc["tick"] = "returned" /\ result["tick"] # "Ok" /\ pc'["tick"] = "idle" )
          => UNCHANGED << checkInterval, timers, checkDelayCache, microtasks >>]_vars

\* the run of a tick returned an Error and the timer that fired is armed
C21_Witness ==
    /\ pc["tick"] = "returned"
    /\ result["tick"] = "Error: GraphQL query failed"
    /\ \E t \in timers : t.id = checkInterval

\* run r has returned because the finding-source query failed
QueryFailed(r) == pc[r] = "returned" /\ result[r] = "Error: GraphQL query failed"

\* C22 (as stated): a run whose query failed has spawned no notifier and the
\* stored sent-log is the one the run read when it started.
C22_QueryFailureMutatesNothing ==
    \A r \in Runs :
        QueryFailed(r) => /\ procs[r] = << >>
                          /\ sentFindingsCache = sentFindings[r]

\* C22 (amended): a run whose query failed has spawned no notifier and has
\* added nothing to the stored sent-log, which is the log the run read less
\* its entries with timestamp <= now - 3600000.
C22_QueryFailureOnlyPrunes ==
    \A r \in Runs :
        QueryFailed(r)
            => /\ procs[r] = << >>
               /\ sentFindingsCache
                     = SelectSeq(sentFindings[r], LAMBDA e : e.timestamp > now[r] - 3600000)

\* the query of a run failed after the run had pruned an entry
C22_Witness ==
    \E r \in Runs :
        /\ QueryFailed(r)
        /\ Len(sentFindingsCache) < Len(sentFindings[r])

\* C23: a run that dispatched and returned has emitted exactly one
\* "findings-sent" event, whose count is the number of finding ids the run
\* added to the sent-log and whose totalCount is the size of the sent-log the
\* run wrote; a run emits nothing before its dispatch has settled, and one
\* that dispatched nothing has emitted no event.
C23_OneEventPerDispatch ==
    \A r \in Runs :
        /\ (pc[r] = "returned" /\ procs[r] # << >>)
              => /\ Len(emitted[r]) = 1
                 /\ emitted[r][1].count
                       = Cardinality(LogIds(sentFindingsCache)
                            \ LogIds(SelectSeq(sentFindings[r],
                                        LAMBDA e : e.timestamp > now[r] - 3600000)))
                 /\ emitted[r][1].totalCount = Len(sentFindingsCache)
        /\ (pc[r] # "returned" \/ procs[r] = << >>) => emitted[r] = << >>

\* a run emitted an event after adding ids to a sent-log that held others
C23_Witness ==
    \E r \in Runs :
        /\ pc[r] = "returned"
        /\ Len(emitted[r]) = 1
        /\ 0 < emitted[r][1].count
        /\ emitted[r][1].count < emitted[r][1].totalCount

\* C24: a run in which a write of the sent-log failed has returned an Error
\* result and has spawned no notifier.
C24_SaveErrorReturned ==
    \A r \in Runs :
        saveError[r] => /\ pc[r] = "returned"
                        /\ result[r] # "Ok"
                        /\ procs[r] = << >>

\* C25: two runs started by callbacks of the timer are never in progress at
\* the same time.
C25_TickRunsNeverOverlap ==
    \A r, q \in TickRuns :
        r # q => ~ /\ pc[r] \notin { "idle", "returned" }
                   /\ pc[q] \notin { "idle", "returned" }

\* C26: while a run is between its read of the sent-log and its write of
\* the extended log, no other run reads the sent-log or writes it.
C26_NoStepBetweenReadAndWrite ==
    [][\A r \in Runs : \A q \in Runs \ { r } :
          (pc[r] = "graphql" /\ pc'[r] = "graphql")
             => /\ ~(pc[q] = "getExcludedFindings" /\ pc'[q] = "graphql")
                /\ ~(pc[q] = "graphql" /\ pc'[q] = "getNotifyIds")]_vars

\* C27: when the last saveCheckDelay request has completed with Ok and no
\* request is in progress, exactly one timer is armed, the one of the kept
\* handle, and its period is the delay just saved.
C27_RearmedWithSavedDelay ==
    (microtasks = << >> /\ saveResult.kind = "Ok")
        => timers = { [id |-> checkInterval, delay |-> saveResult.delay] }

\* C28: as long as no delay has been saved, the scheduler is idle, with no
\* timer and no handle, until init's call of startCheckingFindings arms, and
\* from then on exactly one timer is armed, the one of the kept handle, whose
\* period is the stored check delay of 60000 ms.
C28_InitArmsDefaultTimer ==
    saves = 0 =>
        /\ checkDelayCache = 60000
        /\ IF microtasks # << >>
           THEN timers = { } /\ checkInterval = 0
           ELSE timers = { [id |-> checkInterval, delay |-> checkDelayCache] }

\* no delay was saved and the timer of init is armed
C28_Witness ==
    /\ saves = 0
    /\ checkInterval = 1
    /\ timers = { [id |-> 1, delay |-> 60000] }

\* C29: the stored check delay is an integer of at least 1000, and so is the
\* period of every armed timer and the delay that a suspended
\* startCheckingFindings is about to arm with.
C29_DelayAtLeastOneSecond ==
    /\ checkDelayCache \in Int
    /\ checkDelayCache >= 1000
    /\ \A t \in timers : t.delay \in Int /\ t.delay >= 1000
    /\ \A i \in DOMAIN microtasks : microtasks[i].delay >= 1000

\* saveCheckDelay(-1) was refused after a saved delay of 2000 had been armed
C29_Witness ==
    /\ saveResult = [delay |-> -1, kind |-> "Error"]
    /\ checkDelayCache = 2000
    /\ timers = { [id |-> checkInterval, delay |-> 2000] }

\* C30: an entry of the sent-log that a run has pruned is in no later state
\* of the stored sent-log.
C30_PrunedNeverRestored ==
    \A e \in prunedEntries : e \notin Range(sentFindingsCache)

\* C31: a step of a pipeline run, started by the timer or manually and
\* whatever it returns, leaves the stored exclusion list, the stored
\* destination configuration and the stored check delay as they are; the
\* exclusion list changes only by the push of addExcludedFinding or the
\* filter of removeExcludedFinding.
C31_RunLeavesStoredSettings ==
    [][/\ (\E r \in Runs : pc'[r] # pc[r])
            => UNCHANGED << excludedFindings, notifyConfig, checkDelayCache >>
       /\ excludedFindings' # excludedFindings
            => \E x \in ExcludedArguments :
                  \/ /\ x \notin Range(excludedFindings)
                     /\ excludedFindings' = Append(excludedFindings, x)
                  \/ /\ x \in Range(excludedFindings)
                     /\ x \notin Range(excludedFindings')
                     /\ Len(excludedFindings') < Len(excludedFindings)]_vars

\* a run dispatched and returned while the exclusion list held an entry that
\* addExcludedFinding had put there
C31_Witness ==
    \E r \in Runs :
        /\ pc[r] = "returned"
        /\ procs[r] # << >>
        /\ excludedFindings = << <<"S", "q">> >>

\* C32: each notifier invocation of a run has the flag -provider when the
\* kind of its destination is provider and -id otherwise, the kind being the
\* one recorded for the key of the override that applies to the group's
\* reporter, the default kind when none is recorded for that key or no
\* override applies, and "id" when no default kind is stored.
C32_FlagFollowsKind ==
    \A r \in Runs :
        \A g \in DOMAIN procs[r] :
            LET p == procs[r][g]
                custom == config[r].customFindingIds
                hits == { i \in DOMAIN custom :
                            toLowerCase(custom[i].key) = toLowerCase(p.reporter) }
                defaultKind == IF config[r].defaultIdsType = Undefined
                               THEN "id" ELSE config[r].defaultIdsType
                recorded == IF hits = { } THEN { }
                            ELSE LET first == CHOOSE i \in hits : \A j \in hits : i <= j
                                 IN { e.type : e \in { t \in config[r].customFindingIdsType :
                                                          t.key = custom[first].key } }
                kind == IF recorded = { } THEN defaultKind
                        ELSE CHOOSE t \in recorded : TRUE
            IN p.flag = IF kind = "provider" THEN "-provider" ELSE "-id"

\* a run invoked a notifier with an override that has no recorded kind, no
\* default kind being stored
C32_Witness ==
    \E r \in Runs :
        \E g \in DOMAIN procs[r] :
            /\ procs[r][g].notifyIds = "sq-chan"
            /\ config[r].customFindingIdsType = { }
            /\ config[r].defaultIdsType = Undefined
            /\ procs[r][g].flag = "-id"

\* C34: a sendNotification call that has returned has returned Ok exactly
\* when its notifier process closed with exit code 0; it has returned an
\* error when the process closed with another code or could not be spawned;
\* and when the destination resolved from the stored configuration is empty
\* it has returned "No notify IDs configured" without spawning, unless the
\* read of the configuration failed.
C34_OkExactlyOnExitZero ==
    send.pc = "returned" =>
        /\ send.result = "Ok" <=> send.status = "closed0"
        /\ send.status = "closedNonZero" => send.result = "Error: Notify command failed"
        /\ send.status = "error" => send.result = "Error: Failed to execute notify"
        /\ send.result = "Error: No notify IDs configured" => send.status = "none"
        /\ ( /\ sendDestination(notifyConfig, send.reporter).notifyIds = ""
             /\ send.result # "Error: Failed to read notify IDs" )
              => /\ send.result = "Error: No notify IDs configured"
                 /\ send.status = "none"

\* a call for a reporter with an override returned an error after its
\* process had closed with a non-zero code
C34_Witness ==
    /\ send.pc = "returned"
    /\ send.reporter = <<"S", "Q">>
    /\ send.notifyIds = "sq-chan"
    /\ send.status = "closedNonZero"
    /\ send.result = "Error: Notify command failed"

\* C35: a run that returned Ok having kept no finding has spawned no
\* notifier, emitted no event and not read the destination configuration,
\* and the stored sent-log is the log it read without the entries whose
\* timestamp is at most now - 3600000.
C35_EmptyRunOnlyPrunes ==
    \A r \in Runs :
        (pc[r] = "returned" /\ result[r] = "Ok" /\ newFindings[r] = << >>)
            => /\ procs[r] = << >>
               /\ emitted[r] = << >>
               /\ config[r] = NoConfig
               /\ sentFindingsCache
                     = SelectSeq(sentFindings[r], LAMBDA e : e.timestamp > now[r] - 3600000)

\* a run fetched findings, kept none of them and returned Ok, having pruned
\* an entry of the sent-log
C35_Witness ==
    \E r \in Runs :
        /\ pc[r] = "returned"
        /\ result[r] = "Ok"
        /\ nodes[r] # << >>
        /\ newFindings[r] = << >>
        /\ Len(sentFindingsCache) < Len(sentFindings[r])

\* C36: a clearSentFindings call made while no run is in progress leaves the
\* sent-log empty; a run that reads the empty log keeps every fetched finding
\* that is recent and not excluded, and when it spawns its notifiers every
\* kept finding is in one of their messages, whether or not it was
\* dispatched before.
C36_ClearResetsTheLog ==
    /\ [][((\A r \in Runs : pc[r] = "idle" /\ pc'[r] = "idle")
              /\ sentFindingsCache' # sentFindingsCache)
             => sentFindingsCache' = << >>]_vars
    /\ [](\A r \in Runs :
             (Filtered(r) /\ sentFindings[r] = << >>)
                 => /\ newFindings[r]
                         = SelectSeq(recentFindings(allFindings(nodes[r], now[r]), now[r]),
                                     LAMBDA f : /\ ~isExcludedById(excluded[r], f.id)
                                                /\ ~isExcludedByReporter(excluded[r], f.reporter))
                    /\ procs[r] # << >> => MessageIds(r) = Ids(newFindings[r]))

\* the run before dispatched a finding and wrote it to the sent-log, where
\* it would not yet be pruned; the log was cleared, and this run read the
\* empty log and has passed the finding to a notifier again
C36_Witness ==
    \E r \in Runs :
        /\ pc[r] = "Promise.all"
        /\ sentFindings[r] = << >>
        /\ lastRun.failed
        /\ \E e \in Range(lastRun.written) :
              /\ e.timestamp > now[r] - 3600000
              /\ e.findingId \in lastRun.kept
              /\ e.findingId \in MessageIds(r)

\* C38: when a manual run and a tick run overlap, no finding id is in the
\* notifier messages of both, and when both have returned the stored
\* sent-log holds every id that is in a message of either.
C38_OverlapDispatchesOnce ==
    /\ MessageIds("tick") \cap MessageIds("manual") = { }
    /\ (pc["tick"] = "returned" /\ pc["manual"] = "returned")
          => (MessageIds("tick") \cup MessageIds("manual"))
                \subseteq LogIds(sentFindingsCache)

\* C39: a run that has returned without spawning a notifier has added no
\* id to the stored sent-log: every id in the log was in the log it read.
C39_LoggedOnlyIfSpawned ==
    \A r \in Runs :
        (pc[r] = "returned" /\ procs[r] = << >>)
            => LogIds(sentFindingsCache) \subseteq LogIds(sentFindings[r])

\* C40: sendNotification and a pipeline run treat the stored configuration
\* alike: when sendNotification has spawned the notifier for a reporter, a
\* run does not refuse the configuration and resolves the same destination
\* value and flag for that reporter; when sendNotification has returned
\* "No notify IDs configured", a run refuses the configuration too.
C40_SameDestinationHandling ==
    /\ send.flag # ""
          => /\ ~noDefaultNotifyIds(notifyConfig)
             /\ LET dest == resolveDestination(notifyConfig, send.reporter)
                IN /\ send.notifyIds = dest.notifyIds
                   /\ send.flag = IF dest.idsType = "provider" THEN "-provider" ELSE "-id"
    /\ send.result = "Error: No notify IDs configured"
          => noDefaultNotifyIds(notifyConfig)

\* the errors of the provider-config step
ProviderConfigErrors ==
    { "Error: Failed to read provider config",
      "Error: Failed to create config directory",
      "Error: Failed to write provider config to file" }

\* C33: in the database-backed implementation the step in which a run spawns
\* its notifiers is the one in which the run has written the provider-config
\* file, so the file a notifier is started with is the one its run wrote, and
\* a run that returned an error of the provider-config step has spawned no
\* notifier.
C33_FileWrittenBeforeSpawn ==
    /\ [][\A r \in Runs :
            (procs[r] = << >> /\ procs'[r] # << >>) => providerConfigFile' = r]_vars
    /\ [](\A r \in Runs :
            /\ procs[r] # << >> => providerConfigFile = r
            /\ result[r] \in ProviderConfigErrors
                  => pc[r] = "returned" /\ procs[r] = << >>)

\* a run wrote the file and spawned its notifiers, and the run after it
\* failed to write the file and returned with findings kept
C33_Witness ==
    /\ providerConfigFile = "tick"
    /\ notified # { }
    /\ pc["manual"] = "returned"
    /\ result["manual"] = "Error: Failed to write provider config to file"
    /\ newFindings["manual"] # << >>

\* no entry occurs twice in the list
NoDuplicate(list) ==
    \A i, j \in DOMAIN list : list[i] = list[j] => i = j

\* the entries of short are those of long other than x, in the order they
\* have in long
OthersInOrder(long, short, x) ==
    /\ Range(short) = Range(long) \ { x }
    /\ \A i, j \in DOMAIN short :
          i < j => \E m, n \in DOMAIN long :
                      m < n /\ long[m] = short[i] /\ long[n] = short[j]

\* C37: the stored exclusion list has no duplicate; for every argument x, the
\* list that addExcludedFinding(x) saves contains x, has no duplicate and is
\* left as it is by a second addExcludedFinding(x), and the list that
\* removeExcludedFinding(x) saves does not contain x and holds the other
\* entries in their order.
C37_ExclusionListIsASet ==
    /\ NoDuplicate(excludedFindings)
    /\ \A x \in ExcludedArguments :
          LET added == excludedWith(excludedFindings, x)
              removed == excludedWithout(excludedFindings, x)
          IN /\ x \in Range(added)
             /\ NoDuplicate(added)
             /\ excludedWith(added, x) = added
             /\ x \notin Range(removed)
             /\ Len(removed) = Len(excludedFindings)
                                 - (IF x \in Range(excludedFindings) THEN 1 ELSE 0)
             /\ OthersInOrder(excludedFindings, removed, x)

\* an entry was removed from the head of the stored list and another added
C37_Witness ==
    excludedFindings = << <<"z">>, <<"f", "1">> >>

====
